---- MODULE Spec2Model ----
(***************************************************************************)
(* Model of notebook/services/beakerlab/handlers.py: the contents upsert   *)
(* handler (BeakerLabContentsHandler.put) and the session teardown handler *)
(* (BeakerLabSessionHandler.delete), run as tornado coroutines against a   *)
(* content store (contents_manager) and a session registry                 *)
(* (session_manager).  Every `yield` of a coroutine is one step: the       *)
(* awaited call completes (with a result or an exception) and the          *)
(* coroutine runs on to its next yield or to its end.  Coroutines of       *)
(* different requests interleave at these steps.                           *)
(***************************************************************************)
EXTENDS Integers, Sequences, FiniteSets, TLC

(* ------------------------------ bounds --------------------------------- *)

\* number of requests the server accepts in one run
MaxRequests == 2

\* longest session listing the registry starts with
MaxSessions == 2

\* the coroutines in flight at a time: each handles one request, and takes
\* the next one when its response is finished
Requests == {"r1", "r2"}

(* ------------------------------ values --------------------------------- *)

\* Python's None, and the JSON values a body or a model field holds
None == "None"

\* Python truthiness of the values used here: None and "" are falsy
Truthy(v) == v \notin {None, ""}

\* API paths are sequences of characters
PathA == <<"a">>
PathSlashA == <<"/", "a">>
PathB == <<"b">>

\* the paths requests name, and the paths sessions are bound to
RequestPaths == {PathA, PathSlashA}
SessionPaths == {PathA, PathB}

\* what get_json_body answers: the parsed JSON object, as a function from
\* its keys; NoBody stands for the None it answers when the body is absent
NoBody == [absent |-> "body"]
EmptyObject == [k \in {} |-> None]
PlainBody == [content |-> "nb"]
CopyBody == [content |-> "nb", copy_from |-> "src"]
FalsyCopyBody == [content |-> "nb", copy_from |-> ""]
Bodies == {NoBody, EmptyObject, PlainBody, CopyBody, FalsyCopyBody}

\* faulty variant: only an absent body is refused (a test `is not None`)
BodyTruthy_NotNone(model) == model # NoBody

\* truth value of a parsed body: None and the empty object are falsy
BodyTruthy(model) == model # NoBody /\ DOMAIN model # {}

\* a Python bool, as the call log records it
bool(b) == IF b THEN "True" ELSE "False"

\* dict.get(key): None when the key is absent
dict_get(d, key) == IF key \in DOMAIN d THEN d[key] ELSE None

\* str.strip('/')
RECURSIVE lstrip(_)
lstrip(s) == IF s # <<>> /\ Head(s) = "/" THEN lstrip(Tail(s)) ELSE s

RECURSIVE rstrip(_)
rstrip(s) ==
    IF s # <<>> /\ s[Len(s)] = "/" THEN rstrip(SubSeq(s, 1, Len(s) - 1)) ELSE s

strip(s) == rstrip(lstrip(s))

(* --------------------------- validate_model ---------------------------- *)

\* faulty variant: mimetype is not required (eight keys)
required_keys_NoMimetype ==
    {"name", "path", "type", "writable", "created", "last_modified",
     "content", "format"}

required_keys ==
    {"name", "path", "type", "writable", "created", "last_modified",
     "mimetype", "content", "format"}

\* faulty variant: format is not checked
maybe_none_keys_ContentOnly == {"content"}

maybe_none_keys == {"content", "format"}

\* the outcome of validate_model: "ok", or the HTTPError(500) it raises,
\* with the keys its message names
validate_model(model, expect_content) ==
    LET missing == required_keys \ DOMAIN model
    IN  IF missing # {}
        THEN [error |-> "Missing Model Keys", keys |-> missing]
        ELSE IF expect_content
        THEN LET errors == {key \in maybe_none_keys : model[key] = None}
             IN  IF errors # {}
                 THEN [error |-> "Keys unexpectedly None", keys |-> errors]
                 ELSE [error |-> "ok", keys |-> {}]
        ELSE LET errors == {key \in maybe_none_keys : model[key] # None}
             IN  IF errors # {}
                 THEN [error |-> "Keys unexpectedly not None", keys |-> errors]
                 ELSE [error |-> "ok", keys |-> {}]

(* ------------------- the models the content store returns -------------- *)

\* a well-formed model without content, as save and new return it
GoodModel(p) ==
    [name |-> "nb", path |-> p, type |-> "notebook", writable |-> "true",
     created |-> "t0", last_modified |-> "t1", mimetype |-> None,
     content |-> None, format |-> None]

\* malformed models: a required key missing, content returned unasked
NoMimetypeModel(p) ==
    [name |-> "nb", path |-> p, type |-> "notebook", writable |-> "true",
     created |-> "t0", last_modified |-> "t1",
     content |-> None, format |-> None]

WithContentModel(p) == [GoodModel(p) EXCEPT !["content"] = "nb"]

ReturnedModels(p) == {GoodModel(p), NoMimetypeModel(p), WithContentModel(p)}

(* ------------------------------- state --------------------------------- *)

VARIABLES
    files,       \* content store: the paths that hold content
    registry,    \* session registry: the listing of session records
    pc,          \* per request: the yield its coroutine is suspended at
    method,      \* per request: "PUT", "DELETE" or None before it arrives
    path,        \* per request: the path of the URL
    body,        \* per request: the parsed JSON body (model in put)
    session_id,  \* per request: session_id of delete
    calls,       \* per request: the collaborator calls made, in order
    status,      \* per request: the response status (tornado starts at 200)
    headers,     \* per request: the response headers set
    finished,    \* per request: what was written as the response body
    served,      \* the number of requests accepted so far
    validation,  \* a call of validate_model: its arguments and its outcome
    sorting      \* a sort by sort_key: the models and the sorted list

vars ==
    <<files, registry, pc, method, path, body, session_id, calls, status,
      headers, finished, served, validation, sorting>>

\* the variables of the handlers
handlers ==
    <<files, registry, pc, method, path, body, session_id, calls, status,
      headers, finished, served>>

\* the identifiers of the sessions, in listing order
SessionIds == <<"s1", "s2", "s3", "s4">>

\* listings of n session records in the registry's native shape, the i-th
\* with the i-th identifier and bound to any path, two to the same one too
Listings(n) ==
    {l \in [1 .. n -> [id : {SessionIds[i] : i \in 1 .. n},
                       notebook : [path : SessionPaths]]] :
        \A i \in 1 .. n : l[i]["id"] = SessionIds[i]}

NoHeaders == [h \in {} |-> None]

\* no call of validate_model, no sort made
NoValidation ==
    [model |-> EmptyObject, expect_content |-> FALSE,
     result |-> [error |-> "pending", keys |-> {}]]

NoSorting == [models |-> <<>>, sorted |-> <<>>, done |-> FALSE]

\* no request accepted yet
Idle ==
    /\ pc = [r \in Requests |-> "idle"]
    /\ method = [r \in Requests |-> None]
    /\ path = [r \in Requests |-> <<>>]
    /\ body = [r \in Requests |-> NoBody]
    /\ session_id = [r \in Requests |-> None]
    /\ calls = [r \in Requests |-> <<>>]
    /\ status = [r \in Requests |-> 200]
    /\ headers = [r \in Requests |-> NoHeaders]
    /\ finished = [r \in Requests |-> None]
    /\ served = 0

Init ==
    /\ files \in SUBSET RequestPaths
    /\ registry \in UNION {Listings(n) : n \in 0 .. MaxSessions}
    /\ Idle
    /\ validation = NoValidation
    /\ sorting = NoSorting

(* ----------------------- responses and errors -------------------------- *)

\* how a collaborator call ended: with a value, or with an exception
Returned(v) == [value |-> v]
Raised(e) == [raised |-> e]

\* a recorded collaborator call
Call(op, args, res) == [op |-> op, args |-> args, res |-> res]

\* the outcomes of a collaborator call: it returns, or raises an exception
\* of class KeyError or of another class
Outcomes == {"ok", "KeyError", "Error"}

\* set_status(code), then finish(...): the response is complete
Finish(r, code, hdrs, what) ==
    /\ status' = [status EXCEPT ![r] = code]
    /\ headers' = [headers EXCEPT ![r] = hdrs]
    /\ finished' = [finished EXCEPT ![r] = what]
    /\ pc' = [pc EXCEPT ![r] = "done"]

\* json_errors: an exception leaving the handler becomes the response; an
\* HTTPError carries its status, any other exception is a 500
json_errors(r, code) == Finish(r, code, headers[r], "error")

\* the coroutine suspends at its next yield
Yield(r, at) ==
    /\ pc' = [pc EXCEPT ![r] = at]
    /\ UNCHANGED <<status, headers, finished>>

\* a request arrives at a free coroutine: a fresh handler and response
Accept(r, verb, p, model) ==
    /\ pc[r] \in {"idle", "done"}
    /\ served < MaxRequests
    /\ served' = served + 1
    /\ method' = [method EXCEPT ![r] = verb]
    /\ path' = [path EXCEPT ![r] = p]
    /\ body' = [body EXCEPT ![r] = model]
    /\ session_id' = [session_id EXCEPT ![r] = None]
    /\ calls' = [calls EXCEPT ![r] = <<>>]

\* the first stretch of a handler: it ends at a yield, or with an HTTPError
FirstYield(r, at) ==
    /\ pc' = [pc EXCEPT ![r] = at]
    /\ status' = [status EXCEPT ![r] = 200]
    /\ headers' = [headers EXCEPT ![r] = NoHeaders]
    /\ finished' = [finished EXCEPT ![r] = None]

FirstRaise(r, code) == Finish(r, code, NoHeaders, "error")

Record(r, call) == calls' = [calls EXCEPT ![r] = Append(@, call)]

(* --------------------- BeakerLabContentsHandler ------------------------ *)

location_url(p) == <<"/", "api", "/", "contents", "/">> \o p

\* the headers _finish_model sets
_finish_model(h, model, location) ==
    LET h1 == IF location
              THEN ("Location" :> location_url(model["path"])) @@ h
              ELSE h
    IN  ("Content-Type" :> <<"application/json">>)
            @@ ("Last-Modified" :> <<model["last_modified"]>>) @@ h1

\* faulty variant: the copy_from test is left out
copy_requested_Never(model) == FALSE

\* line 133: the test that rejects a copy
copy_requested(model) == Truthy(dict_get(model, "copy_from"))

\* faulty variant: an empty body is answered as a bad request
empty_body_status_BadRequest == 500 - 100

\* line 141: the status of the HTTPError for an empty body
empty_body_status == 500

\* line 134: the status of the HTTPError for a copy
copy_status == 403

\* put, up to its first yield
put(r, p, model) ==
    /\ Accept(r, "PUT", p, model)
    /\ IF BodyTruthy(model)
       THEN IF copy_requested(model)
            THEN FirstRaise(r, copy_status)
            ELSE FirstYield(r, "put_file_exists")
       ELSE FirstRaise(r, empty_body_status)
    /\ UNCHANGED <<files, registry, validation, sorting>>

\* faulty variant: the answer of the existence check is ignored
route_AlwaysUpload(exists) == "_upload"

\* lines 136-139: an existing path is saved, a new one uploaded
route(exists) == IF exists THEN "_save" ELSE "_upload"

\* faulty variant: the existence check waits while another request is at a
\* store call on the same path
put_file_exists_Locked(r, outcome) ==
    /\ pc[r] = "put_file_exists"
    /\ \A q \in Requests \ {r} :
           ~(pc[q] \in {"_save", "_upload"} /\ path[q] = path[r])
    /\ LET exists == path[r] \in files
       IN  IF outcome = "ok"
           THEN /\ Record(r, Call("file_exists", <<path[r]>>, Returned(bool(exists))))
                /\ Yield(r, route(exists))
           ELSE /\ Record(r, Call("file_exists", <<path[r]>>, Raised(outcome)))
                /\ json_errors(r, 500)
    /\ UNCHANGED <<files, registry, method, path, body, session_id, served, validation, sorting>>

\* put resumes with the answer of contents_manager.file_exists(path)
put_file_exists(r, outcome) ==
    /\ pc[r] = "put_file_exists"
    /\ LET exists == path[r] \in files
       IN  IF outcome = "ok"
           THEN /\ Record(r, Call("file_exists", <<path[r]>>, Returned(bool(exists))))
                /\ Yield(r, route(exists))
           ELSE /\ Record(r, Call("file_exists", <<path[r]>>, Raised(outcome)))
                /\ json_errors(r, 500)
    /\ UNCHANGED <<files, registry, method, path, body, session_id, served, validation, sorting>>

\* faulty variant: the returned model is sent without being validated
_save_Unvalidated(r, outcome, model) ==
    /\ pc[r] = "_save"
    /\ IF outcome = "ok"
       THEN /\ files' = files \cup {path[r]}
            /\ Record(r, Call("save", <<body[r], path[r]>>, Returned(model)))
            /\ Finish(r, status[r],
                      _finish_model(headers[r], model, TRUE), "model")
       ELSE /\ files' = files
            /\ Record(r, Call("save", <<body[r], path[r]>>, Raised(outcome)))
            /\ json_errors(r, 500)
    /\ UNCHANGED <<registry, method, path, body, session_id, served, validation, sorting>>

\* _save resumes with the model contents_manager.save(model, path) returns
_save(r, outcome, model) ==
    /\ pc[r] = "_save"
    /\ IF outcome = "ok"
       THEN /\ files' = files \cup {path[r]}
            /\ Record(r, Call("save", <<body[r], path[r]>>, Returned(model)))
            /\ IF validate_model(model, FALSE).error = "ok"
               THEN Finish(r, status[r],
                           _finish_model(headers[r], model, TRUE), "model")
               ELSE json_errors(r, 500)
       ELSE /\ files' = files
            /\ Record(r, Call("save", <<body[r], path[r]>>, Raised(outcome)))
            /\ json_errors(r, 500)
    /\ UNCHANGED <<registry, method, path, body, session_id, served, validation, sorting>>

\* faulty variant: set_status(201) is forgotten
upload_status_Unset(r) == status[r]

\* line 106: the status _upload sets
upload_status(r) == 201

\* faulty variant: the created model is sent without being validated
_upload_Unvalidated(r, outcome, model) ==
    /\ pc[r] = "_upload"
    /\ IF outcome = "ok"
       THEN /\ files' = files \cup {path[r]}
            /\ Record(r, Call("new", <<body[r], path[r]>>, Returned(model)))
            /\ Finish(r, upload_status(r),
                      _finish_model(headers[r], model, TRUE), "model")
       ELSE /\ files' = files
            /\ Record(r, Call("new", <<body[r], path[r]>>, Raised(outcome)))
            /\ json_errors(r, 500)
    /\ UNCHANGED <<registry, method, path, body, session_id, served, validation, sorting>>

\* _upload resumes with the model contents_manager.new(model, path) returns
_upload(r, outcome, model) ==
    /\ pc[r] = "_upload"
    /\ IF outcome = "ok"
       THEN /\ files' = files \cup {path[r]}
            /\ Record(r, Call("new", <<body[r], path[r]>>, Returned(model)))
            /\ IF validate_model(model, FALSE).error = "ok"
               THEN Finish(r, upload_status(r),
                           _finish_model(headers[r], model, TRUE), "model")
               ELSE json_errors(r, 500)
       ELSE /\ files' = files
            /\ Record(r, Call("new", <<body[r], path[r]>>, Raised(outcome)))
            /\ json_errors(r, 500)
    /\ UNCHANGED <<registry, method, path, body, session_id, served, validation, sorting>>

(* ---------------------- BeakerLabSessionHandler ------------------------ *)

key_path == <<"notebook", "path">>

\* reduce(lambda d, k: d[k], key_path, dict)
RECURSIVE _get_from_dict(_, _)
_get_from_dict(dict, keys) ==
    IF keys = <<>> THEN dict ELSE _get_from_dict(dict[Head(keys)], Tail(keys))

\* faulty variant: the comparison of the loop is inverted
RECURSIVE find_session_Inverted(_, _, _)
find_session_Inverted(sessions, nb_name, found) ==
    IF sessions = <<>>
    THEN found
    ELSE find_session_Inverted(Tail(sessions), nb_name,
                      IF _get_from_dict(Head(sessions), key_path) # nb_name
                      THEN Head(sessions)["id"]
                      ELSE found)

\* faulty variant: the loop stops at the first match
RECURSIVE find_session_First(_, _, _)
find_session_First(sessions, nb_name, found) ==
    IF sessions = <<>>
    THEN found
    ELSE find_session_First(Tail(sessions), nb_name,
                      IF /\ found = None
                         /\ _get_from_dict(Head(sessions), key_path) = nb_name
                      THEN Head(sessions)["id"]
                      ELSE found)

\* lines 167-171: the loop over the listing, which keeps the last match
RECURSIVE find_session(_, _, _)
find_session(sessions, nb_name, found) ==
    IF sessions = <<>>
    THEN found
    ELSE find_session(Tail(sessions), nb_name,
                      IF _get_from_dict(Head(sessions), key_path) = nb_name
                      THEN Head(sessions)["id"]
                      ELSE found)

\* faulty variant: no except clause, a KeyError leaves the handler like any other
except_KeyError_Uncaught(outcome) == 500

\* lines 182-184: a KeyError raised in the try block becomes HTTPError(410);
\* any other exception leaves the handler as it is (a 500)
except_KeyError(outcome) == IF outcome = "KeyError" THEN 410 ELSE 500

\* delete, up to its first yield
delete(r, p) ==
    /\ Accept(r, "DELETE", p, NoBody)
    /\ FirstYield(r, "list_sessions")
    /\ UNCHANGED <<files, registry, validation, sorting>>

\* delete resumes with the listing sm.list_sessions() returns
delete_list_sessions(r, outcome) ==
    /\ pc[r] = "list_sessions"
    /\ IF outcome = "ok"
       THEN LET found == find_session(registry, strip(path[r]), None)
            IN  /\ Record(r, Call("list_sessions", <<>>, Returned(registry)))
                /\ session_id' = [session_id EXCEPT ![r] = found]
                /\ IF found # None
                   THEN Yield(r, "delete_session")
                   ELSE Finish(r, 204, headers[r], "empty")
       ELSE /\ Record(r, Call("list_sessions", <<>>, Raised(outcome)))
            /\ session_id' = session_id
            /\ json_errors(r, 500)
    /\ UNCHANGED <<files, registry, method, path, body, served, validation, sorting>>

has_session(sid) == \E i \in 1 .. Len(registry) : registry[i]["id"] = sid

\* delete resumes when sm.delete_session(session_id) is over
delete_session(r, outcome) ==
    /\ pc[r] = "delete_session"
    /\ outcome = "ok" => has_session(session_id[r])
    /\ Record(r, Call("delete_session", <<session_id[r]>>,
                       IF outcome = "ok" THEN Returned(None) ELSE Raised(outcome)))
    /\ IF outcome = "ok"
       THEN /\ registry' =
                SelectSeq(registry, LAMBDA s : s["id"] # session_id[r])
            /\ Yield(r, "delete_file_exists")
       ELSE /\ registry' = registry
            /\ json_errors(r, except_KeyError(outcome))
    /\ UNCHANGED <<files, method, path, body, session_id, served, validation, sorting>>

\* faulty variant: the content is deleted whatever the existence check answers
delete_file_exists_Anyway(r, outcome) ==
    /\ pc[r] = "delete_file_exists"
    /\ LET exists == path[r] \in files
       IN  IF outcome = "ok"
           THEN /\ Record(r, Call("file_exists", <<path[r]>>, Returned(bool(exists))))
                /\ Yield(r, "cm_delete")
           ELSE /\ Record(r, Call("file_exists", <<path[r]>>, Raised(outcome)))
                /\ json_errors(r, except_KeyError(outcome))
    /\ UNCHANGED <<files, registry, method, path, body, session_id, served, validation, sorting>>

\* delete resumes with the answer of contents_manager.file_exists(path)
delete_file_exists(r, outcome) ==
    /\ pc[r] = "delete_file_exists"
    /\ LET exists == path[r] \in files
       IN  IF outcome = "ok"
           THEN /\ Record(r, Call("file_exists", <<path[r]>>, Returned(bool(exists))))
                /\ IF exists
                   THEN Yield(r, "cm_delete")
                   ELSE Finish(r, 204, headers[r], "empty")
           ELSE /\ Record(r, Call("file_exists", <<path[r]>>, Raised(outcome)))
                /\ json_errors(r, except_KeyError(outcome))
    /\ UNCHANGED <<files, registry, method, path, body, session_id, served, validation, sorting>>

\* faulty variant: a failed content deletion is swallowed (best effort)
cm_delete_Swallowed(r, outcome) ==
    /\ pc[r] = "cm_delete"
    /\ Record(r, Call("delete", <<path[r]>>,
                       IF outcome = "ok" THEN Returned(None) ELSE Raised(outcome)))
    /\ files' = IF outcome = "ok" THEN files \ {path[r]} ELSE files
    /\ Finish(r, 204, headers[r], "empty")
    /\ UNCHANGED <<registry, method, path, body, session_id, served, validation, sorting>>

\* delete resumes when cm.delete(path) is over
cm_delete(r, outcome) ==
    /\ pc[r] = "cm_delete"
    /\ Record(r, Call("delete", <<path[r]>>,
                       IF outcome = "ok" THEN Returned(None) ELSE Raised(outcome)))
    /\ IF outcome = "ok"
       THEN /\ files' = files \ {path[r]}
            /\ Finish(r, 204, headers[r], "empty")
       ELSE /\ files' = files
            /\ json_errors(r, except_KeyError(outcome))
    /\ UNCHANGED <<registry, method, path, body, session_id, served, validation, sorting>>

(* --------------------------- specification ----------------------------- *)

Next ==
    \E r \in Requests :
        \/ \E p \in RequestPaths, model \in Bodies : put(r, p, model)
        \/ \E outcome \in {"ok", "Error"} : put_file_exists(r, outcome)
        \/ \E outcome \in {"ok", "Error"}, model \in ReturnedModels(path[r]) :
               _save(r, outcome, model)
        \/ \E outcome \in {"ok", "Error"}, model \in ReturnedModels(path[r]) :
               _upload(r, outcome, model)
        \/ \E p \in RequestPaths : delete(r, p)
        \/ \E outcome \in Outcomes : delete_list_sessions(r, outcome)
        \/ \E outcome \in Outcomes : delete_session(r, outcome)
        \/ \E outcome \in Outcomes : delete_file_exists(r, outcome)
        \/ \E outcome \in Outcomes : cm_delete(r, outcome)

Spec == Init /\ [][Next]_vars

(* ------------------- validate_model on its own ------------------------- *)

\* the keys of the models validate_model is called with: the required ones
\* and one more
ModelKeys == required_keys \cup {"size"}

\* models with every key, content and format null or not
FullModels ==
    {("size" :> "1") @@
         [GoodModel(PathA) EXCEPT !["content"] = c, !["format"] = f] :
        c \in {None, "nb"}, f \in {None, "json"}}

\* the models validate_model is called with: any keys of a full model
ValidationModels ==
    {[k \in K |-> m[k]] : K \in SUBSET ModelKeys, m \in FullModels}

InitValidate ==
    /\ files = {}
    /\ registry = <<>>
    /\ Idle
    /\ sorting = NoSorting
    /\ validation \in
           [model : ValidationModels, expect_content : BOOLEAN,
            result : {NoValidation["result"]}]

\* validate_model(model, expect_content) is called
Validate ==
    /\ validation["result"]["error"] = "pending"
    /\ validation' =
           [validation EXCEPT !["result"] =
                validate_model(validation["model"],
                               validation["expect_content"])]
    /\ UNCHANGED <<handlers, sorting>>

NextValidate == Validate

SpecValidate == InitValidate /\ [][NextValidate]_vars

(* ---------------------------- sort_key -------------------------------- *)

\* longest list of models sorted
MaxModels == 3

\* the characters of names and keys, in code point order
Chars == <<".", "0", "1", "2", "9", "A", "B", "Z", "a", "b", "t", "x", "z">>

\* ord(c), up to an order-preserving renumbering
ord(c) == CHOOSE i \in 1 .. Len(Chars) : Chars[i] = c

\* str.lower()
lower_char(c) ==
    CASE c = "A" -> "a"
      [] c = "B" -> "b"
      [] c = "Z" -> "z"
      [] OTHER -> c

lower(str) == [i \in 1 .. Len(str) |-> lower_char(str[i])]

\* Python's order of strings: s < t, by code points, a prefix first
RECURSIVE str_lt(_, _)
str_lt(str, t) ==
    IF t = <<>> THEN FALSE
    ELSE IF str = <<>> THEN TRUE
    ELSE IF Head(str) # Head(t) THEN ord(Head(str)) < ord(Head(t))
    ELSE str_lt(Tail(str), Tail(t))

\* lines 25-29: the dict of type keys and its default
type_key(type) ==
    CASE type = "directory" -> "0"
      [] type = "notebook" -> "1"
      [] type = "file" -> "2"
      [] OTHER -> "9"

\* faulty variant: the name is not lower-cased
sort_key_CaseSensitive(model) == <<type_key(model["type"])>> \o model["name"]

sort_key(model) ==
    LET iname == lower(model["name"])
    IN  <<type_key(model["type"])>> \o iname

\* sorted(models, key=sort_key): a stable sort, here by insertion
RECURSIVE insert(_, _)
insert(model, list) ==
    IF list = <<>> THEN <<model>>
    ELSE IF str_lt(sort_key(model), sort_key(Head(list)))
    THEN <<model>> \o list
    ELSE <<Head(list)>> \o insert(model, Tail(list))

RECURSIVE sorted(_)
sorted(list) ==
    IF list = <<>> THEN <<>>
    ELSE insert(list[Len(list)], sorted(SubSeq(list, 1, Len(list) - 1)))

NameA == <<"a">>
NameUpperA == <<"A">>
NameZ == <<"Z">>
NameBtxt == <<"B", ".", "t", "x", "t">>

\* the models sorted: name and type are all that sort_key reads
SortModels ==
    [name : {NameA, NameUpperA, NameZ, NameBtxt},
     type : {"directory", "notebook", "file", "symlink"}]

InitSort ==
    /\ files = {}
    /\ registry = <<>>
    /\ Idle
    /\ validation = NoValidation
    /\ \E n \in 0 .. MaxModels :
           sorting \in [models : [1 .. n -> SortModels], sorted : {<<>>},
                        done : {FALSE}]

\* a list of models is sorted by sort_key
Sort ==
    /\ ~sorting["done"]
    /\ sorting' = [sorting EXCEPT !["sorted"] = sorted(sorting["models"]),
                                  !["done"] = TRUE]
    /\ UNCHANGED <<handlers, validation>>

NextSort == Sort

SpecSort == InitSort /\ [][NextSort]_vars

(* ------------------------------ claims --------------------------------- *)

\* the calls request r made to one operation of a collaborator, in order
CallsTo(r, op) == SelectSeq(calls[r], LAMBDA c : c["op"] = op)

\* the operations request r called, in order
Ops(r) == [i \in 1 .. Len(calls[r]) |-> calls[r][i]["op"]]

\* request r called op and got the answer v
Answered(r, op, v) ==
    \E i \in 1 .. Len(calls[r]) :
        calls[r][i]["op"] = op /\ calls[r][i]["res"] = Returned(v)

\* request r called op and the call raised an exception of class e
Failed(r, op, e) ==
    \E i \in 1 .. Len(calls[r]) :
        calls[r][i]["op"] = op /\ calls[r][i]["res"] = Raised(e)

\* the store returned a model that passes validation to the call
ValidReturned(call) ==
    \E m \in ReturnedModels(call["args"][2]) :
        call["res"] = Returned(m) /\ validate_model(m, FALSE)["error"] = "ok"

\* a non-empty body with no copy_from field
OrdinaryBody(b) == BodyTruthy(b) /\ "copy_from" \notin DOMAIN b

\* an upsert whose body is ordinary and whose existence check answered v
UpsertAnswered(r, v) ==
    /\ method[r] = "PUT"
    /\ OrdinaryBody(body[r])
    /\ Answered(r, "file_exists", v)

\* C1: an upsert with a non-empty body without copy_from whose existence
\* check answered false makes exactly one create call, with (body, path),
\* and no update call; when the returned model is valid the response is 201
\* with a Location header.
C1_UploadWhenAbsent ==
    \A r \in Requests :
        UpsertAnswered(r, "False") =>
            /\ Len(CallsTo(r, "save")) = 0
            /\ Len(CallsTo(r, "new")) <= 1
            /\ pc[r] = "done" =>
                /\ Len(CallsTo(r, "new")) = 1
                /\ CallsTo(r, "new")[1]["args"] = <<body[r], path[r]>>
                /\ ValidReturned(CallsTo(r, "new")[1]) =>
                    /\ status[r] = 201
                    /\ "Location" \in DOMAIN headers[r]
                    /\ finished[r] = "model"

C1_Witness ==
    \E r \in Requests :
        /\ UpsertAnswered(r, "False")
        /\ pc[r] = "done"
        /\ Len(CallsTo(r, "new")) = 1
        /\ ValidReturned(CallsTo(r, "new")[1])
        /\ status[r] = 201

\* C2: an upsert with a non-empty body without copy_from whose existence
\* check answered true makes exactly one update call, with (body, path),
\* and no create call; when the returned model is valid the response is 200
\* and never 201.
C2_SaveWhenPresent ==
    \A r \in Requests :
        UpsertAnswered(r, "True") =>
            /\ Len(CallsTo(r, "new")) = 0
            /\ Len(CallsTo(r, "save")) <= 1
            /\ status[r] # 201
            /\ pc[r] = "done" =>
                /\ Len(CallsTo(r, "save")) = 1
                /\ CallsTo(r, "save")[1]["args"] = <<body[r], path[r]>>
                /\ ValidReturned(CallsTo(r, "save")[1]) =>
                    /\ status[r] = 200
                    /\ finished[r] = "model"

C2_Witness ==
    \E r \in Requests :
        /\ UpsertAnswered(r, "True")
        /\ pc[r] = "done"
        /\ Len(CallsTo(r, "save")) = 1
        /\ ValidReturned(CallsTo(r, "save")[1])
        /\ status[r] = 200

\* C3 as stated: an upsert whose body has a copy_from field, whatever its
\* value, fails with 403 and makes no content-store call.
C3_AnyCopyFromRefused ==
    \A r \in Requests :
        (method[r] = "PUT" /\ "copy_from" \in DOMAIN body[r]) =>
            /\ calls[r] = <<>>
            /\ pc[r] = "done"
            /\ status[r] = 403

\* C3 amended: an upsert whose body has a copy_from field with a truthy
\* value (not null, not empty) fails with 403 and makes no content-store
\* call.
C3_TruthyCopyFromRefused ==
    \A r \in Requests :
        (method[r] = "PUT" /\ Truthy(dict_get(body[r], "copy_from"))) =>
            /\ calls[r] = <<>>
            /\ pc[r] = "done"
            /\ status[r] = 403
            /\ finished[r] = "error"

C3_Witness ==
    \E r \in Requests :
        /\ method[r] = "PUT"
        /\ body[r] = CopyBody
        /\ pc[r] = "done"
        /\ status[r] = 403

\* C4: an upsert whose body is absent or empty fails with 500 in the step
\* that accepts it, makes no content-store call, and leaves the content
\* store (and the registry) unchanged.
C4_EmptyBodyRefused ==
    [][\A r \in Requests :
           (/\ served' # served
            /\ body'[r] \in {NoBody, EmptyObject}
            /\ put(r, path'[r], body'[r])) =>
               /\ pc'[r] = "done"
               /\ status'[r] = 500
               /\ finished'[r] = "error"
               /\ calls'[r] = <<>>
               /\ files' = files
               /\ registry' = registry]_vars

C4_Witness ==
    \E r \in Requests :
        /\ method[r] = "PUT"
        /\ body[r] = EmptyObject
        /\ pc[r] = "done"
        /\ status[r] = 500
        /\ calls[r] = <<>>

\* no session of the registry is bound to the normalized path
NoMatch(p) ==
    \A i \in 1 .. Len(registry) : registry[i]["notebook"]["path"] # strip(p)

\* the calls of the try block of delete
TryOps == {"delete_session", "file_exists", "delete"}

\* the order in which delete calls its collaborators
TeardownOrder == <<"list_sessions", "delete_session", "file_exists", "delete">>

\* C5: when the session deletion of a teardown fails with a KeyError, it
\* was attempted exactly once, the content store was neither queried nor
\* asked to delete, and the response is the 410 error.
C5_KernelGone ==
    \A r \in Requests :
        (method[r] = "DELETE" /\ Failed(r, "delete_session", "KeyError")) =>
            /\ pc[r] = "done"
            /\ Len(CallsTo(r, "delete_session")) = 1
            /\ Len(CallsTo(r, "file_exists")) = 0
            /\ Len(CallsTo(r, "delete")) = 0
            /\ status[r] = 410
            /\ finished[r] = "error"

C5_Witness ==
    \E r \in Requests :
        /\ method[r] = "DELETE"
        /\ Failed(r, "delete_session", "KeyError")
        /\ status[r] = 410

\* C6: a teardown calls its collaborators in the order list, delete
\* session, existence check, delete content, each at most once; when the
\* session deletion succeeded and the content exists it made all four calls
\* (the session and the path of the request as arguments) and, the content
\* deletion done, answers 204; when the content does not exist it makes no
\* content delete call and answers 204.
C6_TeardownOrder ==
    \A r \in Requests :
        method[r] = "DELETE" =>
            /\ Len(calls[r]) <= 4
            /\ Ops(r) = SubSeq(TeardownOrder, 1, Len(calls[r]))
            /\ (pc[r] = "done" /\ Answered(r, "delete_session", None)
                    /\ Answered(r, "file_exists", "True")) =>
                /\ Len(calls[r]) = 4
                /\ calls[r][2]["args"] = <<session_id[r]>>
                /\ calls[r][4]["args"] = <<path[r]>>
                /\ Answered(r, "delete", None) =>
                       status[r] = 204 /\ finished[r] = "empty"
            /\ (pc[r] = "done" /\ Answered(r, "delete_session", None)
                    /\ Answered(r, "file_exists", "False")) =>
                /\ Len(calls[r]) = 3
                /\ status[r] = 204
                /\ finished[r] = "empty"

C6_Witness ==
    \E r \in Requests :
        /\ method[r] = "DELETE"
        /\ pc[r] = "done"
        /\ Answered(r, "delete_session", None)
        /\ Answered(r, "file_exists", "True")
        /\ Answered(r, "delete", None)
        /\ status[r] = 204

\* C7: when the listing holds no session whose notebook.path is the
\* normalized path, the teardown makes no call but the listing, leaves the
\* registry and the content store unchanged, and answers 204.
C7_NoSessionNoDeletion ==
    [][\A r \in Requests :
           (delete_list_sessions(r, "ok") /\ NoMatch(path[r])) =>
               /\ pc'[r] = "done"
               /\ status'[r] = 204
               /\ finished'[r] = "empty"
               /\ Len(calls'[r]) = 1
               /\ calls'[r][1]["op"] = "list_sessions"
               /\ files' = files
               /\ registry' = registry]_vars

C7_Witness ==
    \E r \in Requests :
        /\ method[r] = "DELETE"
        /\ pc[r] = "done"
        /\ status[r] = 204
        /\ Len(calls[r]) = 1
        /\ \E l \in Listings(1) : calls[r][1]["res"] = Returned(l)

\* C8 as stated: a failure of the content store (existence check or
\* delete) after the session deletion succeeded is a generic server error,
\* whatever its class, and never the 410 error.
C8_StoreFailureIsGeneric ==
    \A r \in Requests :
        (/\ method[r] = "DELETE"
         /\ pc[r] = "done"
         /\ Answered(r, "delete_session", None)
         /\ \E op \in {"file_exists", "delete"}, e \in {"KeyError", "Error"} :
                Failed(r, op, e)) =>
            status[r] = 500

\* C9 as stated: in the step in which a teardown that found a session
\* answers 204, no session bound to the normalized path is left in the
\* registry and no content exists at the path.
C9_NothingLeftAt204 ==
    [][\A r \in Requests :
           (/\ method[r] = "DELETE"
            /\ pc[r] # "done"
            /\ pc'[r] = "done"
            /\ status'[r] = 204
            /\ session_id'[r] # None) =>
               /\ \A i \in 1 .. Len(registry') :
                      registry'[i]["notebook"]["path"] # strip(path[r])
               /\ path[r] \notin files']_vars

\* C10 as stated: a teardown ends with 204 or with the 410 error; 410 when
\* the session deletion failed with a KeyError, 204 in every other case.
C10_TwoOutcomes ==
    \A r \in Requests :
        (method[r] = "DELETE" /\ pc[r] = "done") =>
            status[r] = IF Failed(r, "delete_session", "KeyError")
                        THEN 410
                        ELSE 204

\* C10 amended: a teardown ends with exactly one of three outcomes: 204
\* when no collaborator call failed; the 410 error when a call of the try
\* block (session deletion, existence check, content deletion) raised a
\* KeyError; a generic server error (500) when the listing failed or a call
\* of the try block raised an exception of another class.
C10_ThreeOutcomes ==
    \A r \in Requests :
        (method[r] = "DELETE" /\ pc[r] = "done") =>
            /\ status[r] \in {204, 410, 500}
            /\ status[r] = 410 <=>
                   \E op \in TryOps : Failed(r, op, "KeyError")
            /\ status[r] = 500 <=>
                   \/ \E e \in {"KeyError", "Error"} :
                          Failed(r, "list_sessions", e)
                   \/ \E op \in TryOps : Failed(r, op, "Error")
            /\ status[r] = 204 <=>
                   \A i \in 1 .. Len(calls[r]) :
                       "raised" \notin DOMAIN calls[r][i]["res"]

C10_Witness ==
    \E r \in Requests :
        /\ method[r] = "DELETE"
        /\ pc[r] = "done"
        /\ Answered(r, "delete_session", None)
        /\ Failed(r, "delete", "Error")
        /\ status[r] = 500

\* validate_model was called and its outcome is known
Validated == validation["result"]["error"] # "pending"

\* the required fields of the Resource Model, as the spec lists them
ListedKeys ==
    {"name", "path", "type", "writable", "created", "last_modified",
     "mimetype", "content", "format"}

\* a model without some listed key fails with the missing-fields error,
\* which names exactly the listed keys the model lacks, whatever content,
\* format and expect_content are
MissingKeysReported ==
    LET absent == ListedKeys \ DOMAIN validation["model"]
    IN  (Validated /\ absent # {}) =>
            /\ validation["result"]["error"] = "Missing Model Keys"
            /\ validation["result"]["keys"] = absent

\* C11 as stated: a model lacking a required key fails with the
\* missing-fields error naming exactly the absent keys, before the null
\* checks; the required keys are the listed ones, eight of them.
C11_EightRequiredKeys ==
    /\ MissingKeysReported
    /\ Validated =>
           /\ required_keys = ListedKeys
           /\ Cardinality(required_keys) = 8
           /\ Cardinality(validation["result"]["keys"]) <= 8

\* C11 amended: the same, the required keys being the nine listed ones
\* (name, path, type, writable, created, last_modified, mimetype, content,
\* format).
C11_NineRequiredKeys ==
    /\ MissingKeysReported
    /\ Validated =>
           /\ required_keys = ListedKeys
           /\ Cardinality(required_keys) = 9
           /\ Cardinality(validation["result"]["keys"]) <= 9

\* a model without mimetype whose content is not null, validated with
\* expect_content false: the missing key is reported, not the content
C11_Witness ==
    /\ Validated
    /\ ~validation["expect_content"]
    /\ DOMAIN validation["model"] = ModelKeys \ {"mimetype"}
    /\ validation["model"]["content"] # None
    /\ validation["result"] =
           [error |-> "Missing Model Keys", keys |-> {"mimetype"}]

\* C12: a model with every required key passes validation exactly when
\* content and format are both non-null (expect_content true) or both null
\* (expect_content false); otherwise the error is "unexpectedly None"
\* (true) or "unexpectedly not None" (false), naming exactly the null
\* (respectively non-null) keys among content and format.
C12_NullnessMatchesExpectation ==
    LET model == validation["model"]
        result == validation["result"]
        nulls == {k \in {"content", "format"} : model[k] = None}
        nonnulls == {k \in {"content", "format"} : model[k] # None}
    IN  (Validated /\ ListedKeys \subseteq DOMAIN model) =>
            IF validation["expect_content"]
            THEN /\ result["error"] = "ok" <=> nulls = {}
                 /\ nulls # {} =>
                        result = [error |-> "Keys unexpectedly None",
                                  keys |-> nulls]
            ELSE /\ result["error"] = "ok" <=> nonnulls = {}
                 /\ nonnulls # {} =>
                        result = [error |-> "Keys unexpectedly not None",
                                  keys |-> nonnulls]

\* a mixed model (content set, format null) fails under expect_content
\* true, naming format
C12_Witness ==
    /\ Validated
    /\ validation["expect_content"]
    /\ ListedKeys \subseteq DOMAIN validation["model"]
    /\ validation["model"]["content"] # None
    /\ validation["result"] =
           [error |-> "Keys unexpectedly None", keys |-> {"format"}]

\* the place of a type in a listing: directories, notebooks, files, others
TypeRank(type) ==
    CASE type = "directory" -> 0
      [] type = "notebook" -> 1
      [] type = "file" -> 2
      [] OTHER -> 3

\* the sorted list holds the models sorted, each as often
SamePopulation(list1, list2) ==
    /\ Len(list1) = Len(list2)
    /\ \A m \in SortModels :
           Cardinality({i \in 1 .. Len(list1) : list1[i] = m})
               = Cardinality({i \in 1 .. Len(list2) : list2[i] = m})

\* C13: the list sorted by sort_key holds the same models, ordered by type
\* (directories, notebooks, files, any other type last) and within one
\* type by the lower-cased name, compared by code points; names that differ
\* only in case have the same key; the key is defined for every model.
C13_SortedByTypeThenName ==
    sorting["done"] =>
        LET out == sorting["sorted"]
        IN  /\ SamePopulation(out, sorting["models"])
            /\ \A i, j \in 1 .. Len(out) :
                   i < j =>
                       /\ TypeRank(out[i]["type"]) <= TypeRank(out[j]["type"])
                       /\ out[i]["type"] = out[j]["type"] =>
                              ~str_lt(lower(out[j]["name"]),
                                      lower(out[i]["name"]))
                       /\ (/\ out[i]["type"] = out[j]["type"]
                           /\ lower(out[i]["name"]) = lower(out[j]["name"]))
                              => sort_key(out[i]) = sort_key(out[j])
            /\ \A i \in 1 .. Len(out) :
                   /\ Len(sort_key(out[i])) = 1 + Len(out[i]["name"])
                   /\ sort_key(out[i])[1] \in {"0", "1", "2", "9"}

\* the example of the spec: B.txt (file), a (directory), Z (notebook) is
\* sorted to a, Z, B.txt
C13_Witness ==
    /\ sorting["done"]
    /\ sorting["models"] =
           <<[name |-> NameBtxt, type |-> "file"],
             [name |-> NameA, type |-> "directory"],
             [name |-> NameZ, type |-> "notebook"]>>
    /\ sorting["sorted"] =
           <<[name |-> NameA, type |-> "directory"],
             [name |-> NameZ, type |-> "notebook"],
             [name |-> NameBtxt, type |-> "file"]>>

\* an upsert refused before any content-store call, with a status of set S
RefusedAtOnce(r, S) ==
    /\ pc[r] = "done"
    /\ calls[r] = <<>>
    /\ finished[r] = "error"
    /\ status[r] \in S

\* C14 as stated: an upsert with an empty body, like one with copy_from, is
\* refused before any store call with a 4xx status.
C14_ClientErrorsAre4xx ==
    \A r \in Requests :
        (method[r] = "PUT"
            /\ (~BodyTruthy(body[r]) \/ "copy_from" \in DOMAIN body[r])) =>
            RefusedAtOnce(r, 400 .. 499)

\* C14 amended: an upsert with an absent or empty body is refused before
\* any store call with status 500 (a 5xx status, not a 4xx one); an upsert
\* with a truthy copy_from is refused before any store call with the 4xx
\* status 403.
C14_EmptyIs500CopyIs403 ==
    \A r \in Requests :
        method[r] = "PUT" =>
            /\ ~BodyTruthy(body[r]) => RefusedAtOnce(r, {500})
            /\ Truthy(dict_get(body[r], "copy_from")) =>
                   RefusedAtOnce(r, {403})

C14_Witness ==
    \E r \in Requests :
        /\ method[r] = "PUT"
        /\ body[r] = NoBody
        /\ RefusedAtOnce(r, {500})

\* the places of listing l whose session is bound to the normalized path
Matching(l, p) == {i \in 1 .. Len(l) : l[i]["notebook"]["path"] = strip(p)}

\* the identifier of the last session of l bound to the normalized path
LastMatch(l, p) ==
    IF Matching(l, p) = {}
    THEN None
    ELSE l[CHOOSE i \in Matching(l, p) : \A j \in Matching(l, p) : j <= i]["id"]

\* how many calls of a log are calls to op
CountOp(log, op) == Len(SelectSeq(log, LAMBDA c : c["op"] = op))

\* C15: whatever the listing, after every call of a teardown the session it
\* chose is the last one of the listing bound to the normalized path; it
\* has made at most one delete_session call, for that session, and at most
\* one content delete call; its delete_session step leaves every other
\* session, earlier matches too, in the registry.
C15_LastMatchWins ==
    [][\A r \in Requests :
           (/\ calls'[r] # calls[r]
            /\ method'[r] = "DELETE"
            /\ Len(calls'[r]) >= 1
            /\ "value" \in DOMAIN calls'[r][1]["res"]) =>
               LET l == calls'[r][1]["res"]["value"]
                   last == LastMatch(l, path'[r])
               IN  /\ session_id'[r] = last
                   /\ CountOp(calls'[r], "delete_session") <= 1
                   /\ CountOp(calls'[r], "delete") <= 1
                   /\ Len(calls'[r]) = 2 =>
                          /\ calls'[r][2]["op"] = "delete_session"
                          /\ calls'[r][2]["args"] = <<last>>
                          /\ \A i \in 1 .. Len(registry) :
                                 registry[i]["id"] # last =>
                                     \E j \in 1 .. Len(registry') :
                                         registry'[j] = registry[i]]_vars

\* two sessions bound to the path: the second was deleted, the first is
\* still registered
C15_Witness ==
    \E r \in Requests :
        /\ method[r] = "DELETE"
        /\ Len(calls[r]) >= 2
        /\ "value" \in DOMAIN calls[r][1]["res"]
        /\ Cardinality(Matching(calls[r][1]["res"]["value"], path[r])) = 2
        /\ calls[r][2] = Call("delete_session", <<"s2">>, Returned(None))
        /\ \E i \in 1 .. Len(registry) :
               /\ registry[i]["id"] = "s1"
               /\ registry[i]["notebook"]["path"] = strip(path[r])

\* the existence check of a call log has returned its answer
ExistenceKnown(log) ==
    /\ Len(log) >= 1
    /\ log[1]["op"] = "file_exists"
    /\ log[1]["res"] \in {Returned("True"), Returned("False")}

\* C16: the steps of one upsert are strictly ordered: nothing is called
\* before the existence check, the single create or update call is made
\* only after the existence check returned, the model is sent (headers and
\* body) only after that call returned a model that passes validation, and
\* nothing is called after it.
C16_UpsertStepsInOrder ==
    \A r \in Requests :
        method[r] = "PUT" =>
            /\ Len(calls[r]) <= 2
            /\ pc[r] = "put_file_exists" => calls[r] = <<>>
            /\ pc[r] \in {"_save", "_upload"} =>
                   Len(calls[r]) = 1 /\ ExistenceKnown(calls[r])
            /\ Len(calls[r]) >= 1 =>
                   calls[r][1]["op"] = "file_exists"
            /\ Len(calls[r]) = 2 =>
                   /\ ExistenceKnown(calls[r])
                   /\ calls[r][2]["op"] \in {"save", "new"}
                   /\ pc[r] = "done"
            /\ pc[r] # "done" =>
                   finished[r] = None /\ headers[r] = NoHeaders
            /\ headers[r] # NoHeaders => finished[r] = "model"
            /\ finished[r] = "model" =>
                   /\ Len(calls[r]) = 2
                   /\ ValidReturned(calls[r][2])

\* an upsert that went through all its steps and sent the model
C16_Witness ==
    \E r \in Requests :
        /\ method[r] = "PUT"
        /\ pc[r] = "done"
        /\ finished[r] = "model"
        /\ Ops(r) = <<"file_exists", "save">>
        /\ "Last-Modified" \in DOMAIN headers[r]

\* the call returned a model that fails validation without content
InvalidReturned(call) ==
    \E m \in ReturnedModels(call["args"][2]) :
        call["res"] = Returned(m) /\ validate_model(m, FALSE)["error"] # "ok"

\* C17: the step in which the create or update call of an upsert returns a
\* model that fails validation ends the request with status 500, an error
\* body and no header, and leaves the content written at the path.
C17_InvalidModelIs500 ==
    [][\A r \in Requests :
           (/\ calls'[r] # calls[r]
            /\ method'[r] = "PUT"
            /\ Len(calls'[r]) = 2
            /\ InvalidReturned(calls'[r][2])) =>
               /\ pc'[r] = "done"
               /\ status'[r] = 500
               /\ finished'[r] = "error"
               /\ headers'[r] = NoHeaders
               /\ path'[r] \in files']_vars

\* a create call returned a model with content: the request ended as a 500
\* and the content is in the store
C17_Witness ==
    \E r \in Requests :
        /\ method[r] = "PUT"
        /\ pc[r] = "done"
        /\ Answered(r, "file_exists", "False")
        /\ Answered(r, "new", WithContentModel(path[r]))
        /\ status[r] = 500
        /\ finished[r] = "error"
        /\ path[r] \in files

\* C18: requests on the same path do not exclude one another. While an
\* upsert waits for its create call, another upsert on the same path can
\* still be told that nothing exists there and can still create and answer
\* 201; while an upsert waits for its update call, a teardown of the same
\* path can delete the content and answer 204, and the update can write the
\* content whether or not the teardown has answered.
C18_NoMutualExclusion ==
    \A r \in Requests : \A q \in Requests \ {r} :
        (path[r] = path[q] /\ method[q] = "PUT") =>
            /\ (/\ pc[q] = "_upload"
                /\ pc[r] = "put_file_exists"
                /\ path[r] \notin files) =>
                   ENABLED (put_file_exists(r, "ok") /\ pc'[r] = "_upload")
            /\ (pc[q] = "_upload" /\ pc[r] = "_upload") =>
                   ENABLED (/\ _upload(r, "ok", GoodModel(path[r]))
                            /\ status'[r] = 201)
            /\ (pc[q] = "_save" /\ pc[r] = "cm_delete") =>
                   /\ ENABLED (cm_delete(r, "ok") /\ status'[r] = 204)
                   /\ ENABLED (/\ _save(q, "ok", GoodModel(path[q]))
                               /\ path[q] \in files')
            /\ (pc[q] = "_save" /\ method[r] = "DELETE" /\ status[r] = 204) =>
                   ENABLED (/\ _save(q, "ok", GoodModel(path[q]))
                            /\ path[q] \in files')

\* two upserts on one path were both told that nothing exists there, both
\* created it and both answered 201
C18_Witness ==
    \E r \in Requests, q \in Requests :
        /\ r # q
        /\ path[r] = path[q]
        /\ \A t \in {r, q} :
               /\ method[t] = "PUT"
               /\ Answered(t, "file_exists", "False")
               /\ Len(calls[t]) = 2
               /\ calls[t][2]["op"] = "new"
               /\ ValidReturned(calls[t][2])
               /\ status[t] = 201
               /\ finished[t] = "model"

\* a teardown deleted the content and answered 204 between the existence
\* check and the update call of an upsert on the same path: the content
\* exists
C18_TeardownOverlapsUpsert ==
    \E r \in Requests, q \in Requests :
        /\ path[r] = path[q]
        /\ method[r] = "DELETE"
        /\ status[r] = 204
        /\ Answered(r, "delete", None)
        /\ method[q] = "PUT"
        /\ Answered(q, "file_exists", "True")
        /\ Len(calls[q]) = 2
        /\ ValidReturned(calls[q][2])
        /\ status[q] = 200
        /\ path[r] \in files

\* the paths the sessions of listing l with identifier id are bound to
BoundPaths(l, id) ==
    {l[j]["notebook"]["path"] : j \in {k \in 1 .. Len(l) : l[k]["id"] = id}}

\* C19: whenever a teardown calls the content store's delete(p), p is the
\* notebook.path of the session the same request deleted, whatever
\* separators the request path starts or ends with.
C19_DeletesAtSessionPath ==
    \A r \in Requests :
        \A i \in 1 .. Len(calls[r]) :
            (method[r] = "DELETE" /\ calls[r][i]["op"] = "delete") =>
                /\ calls[r][2] =
                       Call("delete_session", <<session_id[r]>>, Returned(None))
                /\ \E np \in BoundPaths(calls[r][1]["res"]["value"],
                                        session_id[r]) :
                       calls[r][i]["args"] = <<np>>

====
